---- MODULE Spec2Model ----
(***************************************************************************)
(* Model of server.py, the sign portal: run_server / init_db, the request  *)
(* router (do_GET / do_POST), the handlers serve_index, serve_users,       *)
(* serve_static and handle_register, and the users table they share.       *)
(*                                                                         *)
(* Text is a sequence of one-character strings, so that strip(), lower()   *)
(* and the text comparison of ORDER BY are computed, not assumed.          *)
(* A request path is a sequence of tokens ("/", "?", and whole segments).  *)
(***************************************************************************)
EXTENDS Integers, Sequences, FiniteSets, TLC

VARIABLES
    pc,          \* phase of the server process (run_server)
    dataDirOk,   \* environment: can DATA_DIR / users.db be created and written
    tableExists, \* the users table exists in data/users.db
    users,       \* rows of the users table, in rowid order
    now,         \* the wall clock read by datetime.utcnow(), in clock ticks
    req,         \* the request handled last by the single-threaded HTTPServer
    resp,        \* the response the client received for it
    hashed,      \* whether handling it called hash_password
    before,      \* history: the users table as that request found it
    wk           \* state of concurrently executing handle_register calls

vars == <<pc, dataDirOk, tableExists, users, now, req, resp, hashed, before, wk>>

----------------------------------------------------------------------------
(* Bounds of the model *)

MaxClock == 3
NumWorkers == 2

(* http.HTTPStatus *)
OK == 200
SEE_OTHER == 303
NOT_FOUND == 404

----------------------------------------------------------------------------
(* Text: str.strip(), str.lower(), SQLite's BINARY text comparison *)

IsSpace(c) == c = " "

LowerChar(c) ==
    CASE c = "A" -> "a"
      [] c = "B" -> "b"
      [] c = "D" -> "d"
      [] c = "U" -> "u"
      [] OTHER -> c

Lower(s) == [i \in 1..Len(s) |-> LowerChar(s[i])]

RECURSIVE LStrip(_)
LStrip(s) == IF s # <<>> /\ IsSpace(Head(s)) THEN LStrip(Tail(s)) ELSE s

RECURSIVE RStrip(_)
RStrip(s) ==
    IF s # <<>> /\ IsSpace(s[Len(s)]) THEN RStrip(SubSeq(s, 1, Len(s) - 1)) ELSE s

Strip(s) == RStrip(LStrip(s))

Code(c) ==
    CASE c = "." -> 46
      [] c = "0" -> 48
      [] c = "1" -> 49
      [] c = "2" -> 50
      [] c = "3" -> 51
      [] c = "4" -> 52
      [] c = "5" -> 53
      [] c = "6" -> 54
      [] c = "7" -> 55
      [] c = "8" -> 56
      [] c = "9" -> 57

RECURSIVE TextLess(_, _)
TextLess(a, b) ==
    IF b = <<>> THEN FALSE
    ELSE IF a = <<>> THEN TRUE
    ELSE IF Code(Head(a)) # Code(Head(b)) THEN Code(Head(a)) < Code(Head(b))
    ELSE TextLess(Tail(a), Tail(b))

Digit(n) ==
    CASE n = 0 -> "0" [] n = 1 -> "1" [] n = 2 -> "2" [] n = 3 -> "3"
      [] n = 4 -> "4" [] n = 5 -> "5" [] n = 6 -> "6" [] n = 7 -> "7"
      [] n = 8 -> "8" [] n = 9 -> "9"

(* datetime.utcnow().isoformat(): fixed-width, zero-padded fields, and the *)
(* fraction is left out when it is zero.  A clock tick is half a second;   *)
(* the model keeps the seconds field (two digits) and the fraction.        *)
IsoFormat(t) ==
    LET sec  == 9 + ((t + 1) \div 2)
        frac == (t + 1) % 2
    IN  <<Digit(sec \div 10), Digit(sec % 10)>>
            \o (IF frac = 0 THEN <<>> ELSE <<".", "5">>)

----------------------------------------------------------------------------
(* hash_password *)

SaltValues == {"salt1"}

HashPassword(password, salt) ==
    [hash |-> <<"pbkdf2_hmac_sha256">> \o <<salt>> \o password, salt |-> salt]

----------------------------------------------------------------------------
(* The users table (init_db) *)

Roles == { <<"a","d","m","i","n">>, <<"u","s","e","r">> }

EmailsOf(tbl) == { tbl[i].email : i \in 1..Len(tbl) }

(* Variant: the email column without UNIQUE *)
DbInsertNoUnique(tbl, name, email, phash, salt, role, created) ==
    IF role \notin {<<"a","d","m","i","n">>, <<"u","s","e","r">>}
    THEN [error |-> "check", table |-> tbl]
    ELSE [error |-> "none",
          table |-> Append(tbl, [id |-> Len(tbl) + 1, name |-> name, email |-> email,
                                 password_hash |-> phash, password_salt |-> salt,
                                 role |-> role, created_at |-> created])]

(* Variant: INSERT OR REPLACE, which overwrites the row holding the email *)
DbInsertOrReplace(tbl, name, email, phash, salt, role, created) ==
    IF role \notin {<<"a","d","m","i","n">>, <<"u","s","e","r">>}
    THEN [error |-> "check", table |-> tbl]
    ELSE LET row == [id |-> Len(tbl) + 1, name |-> name, email |-> email,
                     password_hash |-> phash, password_salt |-> salt,
                     role |-> role, created_at |-> created]
         IN  IF \E i \in 1..Len(tbl) : tbl[i].email = email
             THEN [error |-> "none",
                   table |-> [i \in 1..Len(tbl) |->
                                IF tbl[i].email = email
                                THEN [row EXCEPT !.id = tbl[i].id]
                                ELSE tbl[i]]]
             ELSE [error |-> "none", table |-> Append(tbl, row)]

(* INSERT INTO users: the UNIQUE(email) and CHECK(role) constraints raise  *)
(* sqlite3.IntegrityError and leave the table as it was; id is the next    *)
(* AUTOINCREMENT value.  The statement runs in one SQLite transaction.     *)
DbInsert(tbl, name, email, phash, salt, role, created) ==
    IF role \notin Roles
    THEN [error |-> "check", table |-> tbl]
    ELSE IF email \in EmailsOf(tbl)
    THEN [error |-> "unique", table |-> tbl]
    ELSE [error |-> "none",
          table |-> Append(tbl, [id |-> Len(tbl) + 1, name |-> name, email |-> email,
                                 password_hash |-> phash, password_salt |-> salt,
                                 role |-> role, created_at |-> created])]

IntegrityErrors == {"check", "unique"}

----------------------------------------------------------------------------
(* The file system the process sees.  BASE_DIR is /app. *)

PUBLIC_DIR == <<"app", "public">>

Dirs == { <<>>, <<"app">>, <<"app", "public">>, <<"app", "data">>,
          <<"app", "templates">>, <<"etc">> }

Files == { <<"app", "public", "style.css">>, <<"app", "public", "logo.png">>,
           <<"app", "server.py">>, <<"app", "templates", "index.html">>,
           <<"etc", "passwd">> }

(* What the operating system does with one path component *)
Walk(cur, name) ==
    IF cur \notin Dirs THEN <<"ENOENT">>
    ELSE IF name = ".." THEN (IF cur = <<>> THEN cur ELSE SubSeq(cur, 1, Len(cur) - 1))
    ELSE IF name = "." THEN cur
    ELSE IF Append(cur, name) \in Dirs \cup Files THEN Append(cur, name)
    ELSE <<"ENOENT">>

RECURSIVE Resolve(_, _)
Resolve(cur, names) ==
    IF names = <<>> THEN cur ELSE Resolve(Walk(cur, Head(names)), Tail(names))

Segments(tokens) == SelectSeq(tokens, LAMBDA t : t # "/")

(* PUBLIC_DIR / relative_path: an absolute right operand replaces the left *)
JoinPath(base, tokens) ==
    IF tokens # <<>> /\ Head(tokens) = "/"
    THEN Segments(tokens)
    ELSE base \o Segments(tokens)

(* Path.is_file(): the path, resolved by the operating system, is a file *)
IsFile(names) == Resolve(<<>>, names) \in Files

Suffix(names) ==
    IF names # <<>> /\ names[Len(names)] = "style.css" THEN ".css" ELSE ".other"

----------------------------------------------------------------------------
(* Requests *)

StartsWith(s, prefix) ==
    Len(s) >= Len(prefix) /\ SubSeq(s, 1, Len(prefix)) = prefix

STATIC_PREFIX == <<"/", "static", "/">>

(* str.replace("/static/", "", 1): drops the first occurrence *)
RECURSIVE ReplaceFirst(_, _)
ReplaceFirst(s, old) ==
    IF Len(s) < Len(old) THEN s
    ELSE IF StartsWith(s, old) THEN SubSeq(s, Len(old) + 1, Len(s))
    ELSE <<Head(s)>> \o ReplaceFirst(Tail(s), old)

GetPaths ==
    { <<"/">>,
      <<"/", "?", "message=hi">>,
      <<"/", "users">>,
      <<"/", "static", "/", "style.css">>,
      <<"/", "static", "/", "logo.png">>,
      <<"/", "static", "/", "missing.css">>,
      <<"/", "static", "/", "..", "/", "server.py">>,
      <<"/", "static", "/", "/", "etc", "/", "passwd">>,
      <<"/", "favicon.ico">> }

PostPaths == { <<"/", "register">>, <<"/", "login">> }

NoForm == [name |-> <<>>, email |-> <<>>, password |-> <<>>, role |-> <<>>]

(* A form field of the body is the list of the values given for it *)
Blank == << <<>> >>
NameAl == << <<"A", "l">> >>
NameBo == << <<" ", "B", "o">> >>
NameSpace == << <<" ">> >>
EmailUpper == << <<"A", "@", "b">> >>
EmailPadded == << <<"a", "@", "B", " ">> >>
EmailOther == << <<"c", "@", "d">> >>
EmailSpace == << <<" ">> >>
PasswordP == << <<"p">> >>
PasswordSpace == << <<" ">> >>
RoleAdmin == << <<"A", "d", "m", "i", "n">> >>
RoleUser == << <<" ", "u", "s", "e", "r", " ">> >>
RoleSuper == << <<"s", "u", "p", "e", "r", "u", "s", "e", "r">> >>

(* Bodies that give or leave out each field, in every combination *)
PresenceForms ==
    [name : {Blank, NameAl}, email : {Blank, EmailUpper},
     password : {Blank, PasswordP}, role : {<<>>, RoleAdmin}]

(* Bodies that pass validation: two people, each under three spellings of  *)
(* two addresses                                                           *)
ValidForms ==
    [name : {NameAl}, email : {EmailUpper, EmailPadded, EmailOther},
     password : {PasswordP}, role : {RoleAdmin}]
    \cup [name : {NameBo}, email : {EmailUpper, EmailPadded, EmailOther},
          password : {PasswordSpace}, role : {RoleUser}]

(* Bodies with one field that only normalisation shows to be invalid *)
OddForms ==
    [name : {NameSpace}, email : {EmailOther}, password : {PasswordP},
     role : {RoleAdmin}]
    \cup [name : {NameAl}, email : {EmailSpace}, password : {PasswordP}, role : {RoleAdmin}]
    \cup [name : {NameAl}, email : {EmailOther}, password : {PasswordP},
          role : {RoleSuper}]

Forms == PresenceForms \cup ValidForms \cup OddForms

NoRequest == [method |-> "none", path |-> <<>>, form |-> NoForm, salt |-> "", logOk |-> TRUE]

(* urllib.parse.parse_qs with keep_blank_values=False: blank values are    *)
(* dropped, and a field with no value left is not in the result           *)
ParseQs(form) ==
    [k \in DOMAIN form |-> SelectSeq(form[k], LAMBDA v : v # <<>>)]

(* (data.get(key) or [""])[0] *)
FirstValue(data, key) == IF data[key] = <<>> THEN <<>> ELSE data[key][1]

----------------------------------------------------------------------------
(* Responses *)

NoResponse ==
    [status |-> 0, ctype |-> "", message |-> <<>>, level |-> "",
     users |-> <<>>, file |-> <<>>]

(* redirect_with_message *)
Redirect(message, level) ==
    [status |-> SEE_OTHER, ctype |-> "", message |-> message, level |-> level,
     users |-> <<>>, file |-> <<>>]

(* send_error *)
SendError(status) ==
    [status |-> status, ctype |-> "text/html;charset=utf-8", message |-> <<>>,
     level |-> "", users |-> <<>>, file |-> <<>>]

(* BaseHTTPRequestHandler.send_response and send_error call log_message    *)
(* before anything is written; log_message does not catch the OSError of a *)
(* failed write, so the handler ends there and the client gets no response *)
Logged(logOk, response) == IF logOk THEN response ELSE NoResponse

(* " ".join(errors) *)
RECURSIVE JoinSpace(_)
JoinSpace(errors) ==
    IF Len(errors) <= 1 THEN errors
    ELSE <<Head(errors), " ">> \o JoinSpace(Tail(errors))

NAME_REQUIRED == "Name is required."
EMAIL_REQUIRED == "Email is required."
PASSWORD_REQUIRED == "Password is required."
ROLE_INVALID == "Role must be 'admin' or 'user'."
EMAIL_TAKEN == "That email is already registered."
REGISTERED == "Registration successful!"

----------------------------------------------------------------------------
(* Handlers, as functions of the request and the state they read *)

(* Variant: the email is trimmed but its case is kept *)
FieldsKeepCase(form) ==
    LET data == ParseQs(form)
    IN  [name     |-> Strip(FirstValue(data, "name")),
         email    |-> Strip(FirstValue(data, "email")),
         password |-> FirstValue(data, "password"),
         role     |-> Lower(Strip(FirstValue(data, "role")))]

(* handle_register: the normalised fields *)
Fields(form) ==
    LET data == ParseQs(form)
    IN  [name     |-> Strip(FirstValue(data, "name")),
         email    |-> Lower(Strip(FirstValue(data, "email"))),
         password |-> FirstValue(data, "password"),
         role     |-> Lower(Strip(FirstValue(data, "role")))]

(* Variant: the role is left to the table's CHECK constraint *)
ValidateNoRole(f) ==
    (IF f.name = <<>> THEN <<NAME_REQUIRED>> ELSE <<>>)
        \o (IF f.email = <<>> THEN <<EMAIL_REQUIRED>> ELSE <<>>)
        \o (IF f.password = <<>> THEN <<PASSWORD_REQUIRED>> ELSE <<>>)

(* Variant: validation stops at the first error *)
ValidateFirstOnly(f) ==
    IF f.name = <<>> THEN <<NAME_REQUIRED>>
    ELSE IF f.email = <<>> THEN <<EMAIL_REQUIRED>>
    ELSE IF f.password = <<>> THEN <<PASSWORD_REQUIRED>>
    ELSE IF f.role \notin Roles THEN <<ROLE_INVALID>>
    ELSE <<>>

(* handle_register: the errors list *)
Validate(f) ==
    (IF f.name = <<>> THEN <<NAME_REQUIRED>> ELSE <<>>)
        \o (IF f.email = <<>> THEN <<EMAIL_REQUIRED>> ELSE <<>>)
        \o (IF f.password = <<>> THEN <<PASSWORD_REQUIRED>> ELSE <<>>)
        \o (IF f.role \notin Roles THEN <<ROLE_INVALID>> ELSE <<>>)

(* handle_register: the INSERT of the validated fields, stamped t *)
InsertUser(tbl, f, salt, t) ==
    LET hp == HashPassword(f.password, salt)
    IN  DbInsert(tbl, f.name, f.email, hp.hash, hp.salt, f.role, IsoFormat(t))

(* Variant: the IntegrityError is swallowed *)
InsertRedirectAlwaysOk(error) == Redirect(<<REGISTERED>>, "success")

(* handle_register: the redirect that follows the INSERT *)
InsertRedirect(error) ==
    IF error \in IntegrityErrors
    THEN Redirect(<<EMAIL_TAKEN>>, "error")
    ELSE Redirect(<<REGISTERED>>, "success")

HandleRegister(form, salt, t, tbl, logOk) ==
    LET f      == Fields(form)
        errors == Validate(f)
        ins    == InsertUser(tbl, f, salt, t)
    IN  IF errors # <<>>
        THEN [resp   |-> Logged(logOk, Redirect(JoinSpace(errors), "error")),
              table  |-> tbl,
              hashed |-> FALSE]
        ELSE [resp   |-> Logged(logOk, InsertRedirect(ins.error)),
              table  |-> ins.table,
              hashed |-> TRUE]

(* serve_users: SELECT id, name, email, role, created_at *)
Project(row) ==
    [id |-> row.id, name |-> row.name, email |-> row.email, role |-> row.role,
     created_at |-> row.created_at]

Orderings(n) == { p \in [1..n -> 1..n] : \A i, j \in 1..n : i # j => p[i] # p[j] }

(* Variant: the SELECT without ORDER BY, rows in rowid order *)
OrderByRowid(tbl) == {tbl}

(* ORDER BY created_at DESC: no row is followed by one with a greater      *)
(* created_at; SQL leaves the order of rows with equal keys open           *)
OrderByCreatedDesc(tbl) ==
    { [i \in 1..Len(tbl) |-> tbl[p[i]]] : p \in
        { q \in Orderings(Len(tbl)) :
            \A i, j \in 1..Len(tbl) :
                i < j => ~TextLess(tbl[q[i]].created_at, tbl[q[j]].created_at) } }

ServeUsersResponse(rows) ==
    [status |-> OK, ctype |-> "application/json; charset=utf-8", message |-> <<>>,
     level |-> "", users |-> [i \in 1..Len(rows) |-> Project(rows[i])], file |-> <<>>]

(* serve_static *)
ServeStaticResponse(path) ==
    LET relative_path == ReplaceFirst(path, STATIC_PREFIX)
        candidate     == JoinPath(PUBLIC_DIR, relative_path)
    IN  IF IsFile(candidate)
        THEN [status |-> OK,
              ctype |-> IF Suffix(candidate) = ".css"
                        THEN "text/css; charset=utf-8"
                        ELSE "application/octet-stream; charset=utf-8",
              message |-> <<>>, level |-> "", users |-> <<>>,
              file |-> Resolve(<<>>, candidate)]
        ELSE SendError(NOT_FOUND)

(* serve_index: the page rendered with message and message_class *)
ServeIndexResponse(path) ==
    LET message == IF Len(path) >= 3 /\ path[3] = "message=hi" THEN <<"hi">> ELSE <<>>
    IN  [status |-> OK, ctype |-> "text/html; charset=utf-8", message |-> message,
         level |-> IF message # <<>> THEN "info" ELSE "", users |-> <<>>, file |-> <<>>]

(* do_GET's routing *)
RouteGet(path) ==
    IF path = <<"/">> \/ StartsWith(path, <<"/", "?">>) THEN "index"
    ELSE IF StartsWith(path, <<"/", "users">>) THEN "users"
    ELSE IF StartsWith(path, STATIC_PREFIX) THEN "static"
    ELSE "not_found"

(* do_POST's routing *)
RoutePost(path) == IF path = <<"/", "register">> THEN "register" ELSE "not_found"

----------------------------------------------------------------------------
(* The server process: run_server *)

Workers == 1..NumWorkers

NoFields == [name |-> <<>>, email |-> <<>>, password |-> <<>>, role |-> <<>>]

IdleWorker ==
    [pc |-> "idle", f |-> NoFields, salt |-> "", ts |-> 0, error |-> "",
     resp |-> NoResponse]

Init ==
    /\ pc = "start"
    /\ dataDirOk \in BOOLEAN
    /\ tableExists = FALSE
    /\ users = <<>>
    /\ now = 0
    /\ req = NoRequest
    /\ resp = NoResponse
    /\ hashed = FALSE
    /\ before = <<>>
    /\ wk = [w \in Workers |-> IdleWorker]


(* init_db: CREATE TABLE IF NOT EXISTS keeps the rows of an existing table *)
InitDbTable(tbl) == tbl

(* Variant: run_server goes on after init_db failed *)
InitDbIgnoringFailure ==
    /\ pc = "start"
    /\ pc' = "db_ready"
    /\ tableExists' = (tableExists \/ dataDirOk)
    /\ users' = users
    /\ UNCHANGED <<dataDirOk, now, req, resp, hashed, before, wk>>

(* run_server line 187: init_db(); an exception ends the process *)
InitDb ==
    /\ pc = "start"
    /\ IF dataDirOk
       THEN /\ pc' = "db_ready"
            /\ tableExists' = TRUE
            /\ users' = InitDbTable(users)
       ELSE /\ pc' = "crashed"
            /\ UNCHANGED <<tableExists, users>>
    /\ UNCHANGED <<dataDirOk, now, req, resp, hashed, before, wk>>

(* run_server line 188: HTTPServer(...) binds and listens, or raises *)
Bind ==
    /\ pc = "db_ready"
    /\ \E bound \in BOOLEAN : pc' = IF bound THEN "listening" ELSE "crashed"
    /\ UNCHANGED <<dataDirOk, tableExists, users, now, req, resp, hashed, before, wk>>

(* run_server lines 192-195: KeyboardInterrupt, server_close *)
Shutdown ==
    /\ pc = "listening"
    /\ \A w \in Workers : wk[w].pc \in {"idle", "done"}
    /\ pc' = "closed"
    /\ UNCHANGED <<dataDirOk, tableExists, users, now, req, resp, hashed, before, wk>>

(* the script is started again: a new process, the same data directory *)
RunServer ==
    /\ pc \in {"closed", "crashed"}
    /\ pc' = "start"
    /\ dataDirOk' \in BOOLEAN
    /\ req' = NoRequest
    /\ resp' = NoResponse
    /\ hashed' = FALSE
    /\ before' = <<>>
    /\ wk' = [w \in Workers |-> IdleWorker]
    /\ UNCHANGED <<tableExists, users, now>>

(* the wall clock: time passes; the clock is stepped back (time.time() is  *)
(* the system's real-time clock, which an adjustment can set back)         *)
Tick ==
    /\ now < MaxClock
    /\ now' = now + 1
    /\ UNCHANGED <<pc, dataDirOk, tableExists, users, req, resp, hashed, before, wk>>

ClockSetBack ==
    /\ now > 0
    /\ now' \in 0..(now - 1)
    /\ UNCHANGED <<pc, dataDirOk, tableExists, users, req, resp, hashed, before, wk>>

----------------------------------------------------------------------------
(* Requests handled one at a time (HTTPServer.serve_forever) *)

Request(method, path, form, salt, logOk) ==
    [method |-> method, path |-> path, form |-> form, salt |-> salt, logOk |-> logOk]

ServeIndex(path, logOk) ==
    /\ pc = "listening"
    /\ RouteGet(path) = "index"
    /\ req' = Request("GET", path, NoForm, "", logOk)
    /\ before' = users
    /\ resp' = Logged(logOk, ServeIndexResponse(path))
    /\ hashed' = FALSE
    /\ UNCHANGED <<pc, dataDirOk, tableExists, users, now, wk>>

ServeUsers(path, logOk) ==
    /\ pc = "listening"
    /\ RouteGet(path) = "users"
    /\ req' = Request("GET", path, NoForm, "", logOk)
    /\ before' = users
    /\ \E rows \in OrderByCreatedDesc(users) :
           resp' = Logged(logOk, ServeUsersResponse(rows))
    /\ hashed' = FALSE
    /\ UNCHANGED <<pc, dataDirOk, tableExists, users, now, wk>>

ServeStatic(path, logOk) ==
    /\ pc = "listening"
    /\ RouteGet(path) = "static"
    /\ req' = Request("GET", path, NoForm, "", logOk)
    /\ before' = users
    /\ resp' = Logged(logOk, ServeStaticResponse(path))
    /\ hashed' = FALSE
    /\ UNCHANGED <<pc, dataDirOk, tableExists, users, now, wk>>

GetNotFound(path, logOk) ==
    /\ pc = "listening"
    /\ RouteGet(path) = "not_found"
    /\ req' = Request("GET", path, NoForm, "", logOk)
    /\ before' = users
    /\ resp' = Logged(logOk, SendError(NOT_FOUND))
    /\ hashed' = FALSE
    /\ UNCHANGED <<pc, dataDirOk, tableExists, users, now, wk>>

(* handle_register, whole: the clock is read once the fields are valid,    *)
(* and hashing and inserting take at least one tick                        *)
Register(path, form, salt, logOk) ==
    LET out == HandleRegister(form, salt, now, users, logOk)
    IN  /\ pc = "listening"
        /\ RoutePost(path) = "register"
        /\ out.hashed => now < MaxClock
        /\ req' = Request("POST", path, form, salt, logOk)
        /\ before' = users
        /\ resp' = out.resp
        /\ users' = out.table
        /\ hashed' = out.hashed
        /\ now' = IF out.hashed THEN now + 1 ELSE now
        /\ UNCHANGED <<pc, dataDirOk, tableExists, wk>>

PostNotFound(path, form, logOk) ==
    /\ pc = "listening"
    /\ RoutePost(path) = "not_found"
    /\ req' = Request("POST", path, form, "", logOk)
    /\ before' = users
    /\ resp' = Logged(logOk, SendError(NOT_FOUND))
    /\ hashed' = FALSE
    /\ UNCHANGED <<pc, dataDirOk, tableExists, users, now, wk>>

DoGet(logOk) ==
    \E path \in GetPaths :
        \/ ServeIndex(path, logOk)
        \/ ServeUsers(path, logOk)
        \/ ServeStatic(path, logOk)
        \/ GetNotFound(path, logOk)

DoPost(logOk) ==
    \E path \in PostPaths, form \in Forms :
        \/ \E salt \in SaltValues : Register(path, form, salt, logOk)
        \/ PostNotFound(path, form, logOk)

Lifecycle == InitDb \/ Bind \/ Shutdown \/ RunServer

Clock == Tick \/ ClockSetBack

Next ==
    \/ Lifecycle
    \/ Clock
    \/ DoGet(TRUE)
    \/ DoPost(TRUE)

Spec == Init /\ [][Next]_vars

(* The same server where a write to server.log can fail *)
NextLogFault ==
    \/ Lifecycle
    \/ Clock
    \/ \E logOk \in BOOLEAN : DoGet(logOk)
    \/ \E logOk \in BOOLEAN : DoPost(logOk)

SpecLogFault == Init /\ [][NextLogFault]_vars

----------------------------------------------------------------------------
(* handle_register calls that run at the same time (server processes, or   *)
(* handler threads, over the one data/users.db): each call is the steps of *)
(* lines 135-170, and the only step the calls exclude each other in is the *)
(* INSERT, one SQLite write transaction                                    *)

ConcurrentForms ==
    { [name |-> NameAl, email |-> EmailUpper, password |-> PasswordP,
       role |-> RoleAdmin],
      [name |-> NameBo, email |-> EmailPadded, password |-> PasswordSpace,
       role |-> RoleUser],
      [name |-> NameAl, email |-> EmailUpper, password |-> PasswordP,
       role |-> RoleSuper] }

(* lines 135-157: read the body, validate, hash *)
WorkerBegin(w) ==
    /\ pc = "listening"
    /\ wk[w].pc = "idle"
    /\ \E form \in ConcurrentForms, salt \in SaltValues :
        LET f      == Fields(form)
            errors == Validate(f)
        IN  wk' = [wk EXCEPT ![w] =
                    IF errors # <<>>
                    THEN [IdleWorker EXCEPT !.pc = "done", !.f = f,
                            !.resp = Redirect(JoinSpace(errors), "error")]
                    ELSE [IdleWorker EXCEPT !.pc = "hashed", !.f = f, !.salt = salt]]
    /\ UNCHANGED <<pc, dataDirOk, tableExists, users, now, req, resp, hashed, before>>

(* line 163: datetime.utcnow() is read when the parameters are built *)
WorkerStamp(w) ==
    /\ wk[w].pc = "hashed"
    /\ wk' = [wk EXCEPT ![w].pc = "stamped", ![w].ts = now]
    /\ UNCHANGED <<pc, dataDirOk, tableExists, users, now, req, resp, hashed, before>>

(* lines 160-166: the INSERT and its commit, or the IntegrityError *)
WorkerExecute(w) ==
    LET ins == InsertUser(users, wk[w].f, wk[w].salt, wk[w].ts)
    IN  /\ wk[w].pc = "stamped"
        /\ users' = ins.table
        /\ wk' = [wk EXCEPT ![w].pc = "executed", ![w].error = ins.error]
        /\ UNCHANGED <<pc, dataDirOk, tableExists, now, req, resp, hashed, before>>

(* lines 167-170: the redirect *)
WorkerRespond(w) ==
    /\ wk[w].pc = "executed"
    /\ wk' = [wk EXCEPT ![w].pc = "done", ![w].resp = InsertRedirect(wk[w].error)]
    /\ UNCHANGED <<pc, dataDirOk, tableExists, users, now, req, resp, hashed, before>>

NextConcurrent ==
    \/ Lifecycle
    \/ Tick
    \/ \E w \in Workers :
        WorkerBegin(w) \/ WorkerStamp(w) \/ WorkerExecute(w) \/ WorkerRespond(w)

SpecConcurrent == Init /\ [][NextConcurrent]_vars

----------------------------------------------------------------------------
(* What the properties say of a request, read off the body as it was sent  *)

IsRegister == req.method = "POST" /\ req.path = <<"/", "register">>

Given(key) == FirstValue(ParseQs(req.form), key)

GivenEmail == Lower(Strip(Given("email")))

GivenRole == Lower(Strip(Given("role")))

ValidGiven ==
    /\ Strip(Given("name")) # <<>>
    /\ GivenEmail # <<>>
    /\ Given("password") # <<>>
    /\ GivenRole \in Roles

(* the stored emails, compared without regard to case *)
StoredEmails(tbl) == { Lower(tbl[i].email) : i \in 1..Len(tbl) }

AppendsOneRow(old, new) ==
    /\ Len(new) = Len(old) + 1
    /\ SubSeq(new, 1, Len(old)) = old

Range(seq) == { seq[i] : i \in 1..Len(seq) }

----------------------------------------------------------------------------
(* C1: a registration with valid fields whose email is not stored inserts  *)
(* exactly one row and is answered 303 "Registration successful!" with     *)
(* level success; one whose email is stored, in any letter case, is        *)
(* answered 303 "That email is already registered." with level error and   *)
(* inserts no row; and a stored email stays stored, so that every later    *)
(* request with it is such a request.                                      *)
RegisterAnswer ==
    (IsRegister /\ ValidGiven) =>
        IF GivenEmail \in StoredEmails(before)
        THEN /\ resp = Redirect(<<EMAIL_TAKEN>>, "error")
             /\ users = before
        ELSE /\ resp = Redirect(<<REGISTERED>>, "success")
             /\ AppendsOneRow(before, users)
             /\ Lower(users[Len(users)].email) = GivenEmail

RegisterSucceedsExactlyOnce ==
    /\ []RegisterAnswer
    /\ [][StoredEmails(users) \subseteq StoredEmails(users')]_vars

RegisterTwiceWitness ==
    /\ IsRegister
    /\ req.form.name = NameBo
    /\ req.form.email = EmailPadded
    /\ before # <<>>
    /\ before[1].name = <<"A", "l">>
    /\ resp = Redirect(<<EMAIL_TAKEN>>, "error")

(* C2: every stored email is trimmed and lowercase, and no two rows have   *)
(* emails that are equal when compared without regard to case.             *)
EmailsNormalisedAndUnique ==
    /\ \A i \in 1..Len(users) :
        /\ users[i].email = Strip(users[i].email)
        /\ users[i].email = Lower(users[i].email)
    /\ \A i, j \in 1..Len(users) :
        i # j => Lower(users[i].email) # Lower(users[j].email)

TwoEmailsWitness ==
    /\ Len(users) = 2
    /\ IsRegister
    /\ req.form.email = EmailPadded
    /\ resp = Redirect(<<REGISTERED>>, "success")

(* C3: the role field is accepted exactly when its trimmed, lowercased     *)
(* value is admin or user; a rejected role is answered with "Role must be  *)
(* 'admin' or 'user'." and stores nothing; every stored role is admin or   *)
(* user in lowercase.                                                      *)
RoleAcceptedIffAdminOrUser ==
    /\ IsRegister =>
        /\ (ROLE_INVALID \in Range(resp.message)) <=> (GivenRole \notin Roles)
        /\ GivenRole \notin Roles => users = before /\ resp.level = "error"
    /\ \A i \in 1..Len(users) : users[i].role \in Roles

RoleWitness ==
    /\ IsRegister
    /\ req.form.role = RoleAdmin
    /\ resp = Redirect(<<REGISTERED>>, "success")
    /\ users[Len(users)].role = <<"a", "d", "m", "i", "n">>

----------------------------------------------------------------------------
ErrorStrings == {NAME_REQUIRED, EMAIL_REQUIRED, PASSWORD_REQUIRED, ROLE_INVALID}

ErrorsWhen(noName, noEmail, noPassword, badRole) ==
    (IF noName THEN <<NAME_REQUIRED>> ELSE <<>>)
        \o (IF noEmail THEN <<EMAIL_REQUIRED>> ELSE <<>>)
        \o (IF noPassword THEN <<PASSWORD_REQUIRED>> ELSE <<>>)
        \o (IF badRole THEN <<ROLE_INVALID>> ELSE <<>>)

(* the answer to a registration names exactly the errors errs, in order;   *)
(* if there is one it is the 303 to / with level error, nothing was hashed *)
(* and the table is as it was                                              *)
AnswersWithErrors(errs) ==
    IsRegister =>
        /\ SelectSeq(resp.message, LAMBDA m : m \in ErrorStrings) = errs
        /\ errs # <<>> =>
            /\ resp = Redirect(JoinSpace(errs), "error")
            /\ ~hashed
            /\ users = before

(* C4 as claimed: "Name is required." exactly when the name is empty       *)
ValidationAccumulatesAsClaimed ==
    AnswersWithErrors(ErrorsWhen(Given("name") = <<>>, Strip(Given("email")) = <<>>,
                                 Given("password") = <<>>, GivenRole \notin Roles))

(* C4 (amended): validation does not short-circuit: the message is the     *)
(* space-joined list of exactly the errors whose condition holds, in the   *)
(* order name, email, password, role, where the name, like the email, is   *)
(* empty after trimming; with an error the answer is the 303 to / with     *)
(* level error, the password is not hashed and the table is unchanged.     *)
ValidationAccumulates ==
    AnswersWithErrors(ErrorsWhen(Strip(Given("name")) = <<>>,
                                 Strip(Given("email")) = <<>>,
                                 Given("password") = <<>>, GivenRole \notin Roles))

ValidationWitness ==
    /\ IsRegister
    /\ req.form.name = Blank
    /\ req.form.password = Blank
    /\ req.form.email = EmailUpper
    /\ resp.message = <<NAME_REQUIRED, " ", PASSWORD_REQUIRED, " ", ROLE_INVALID>>
    /\ users # <<>>

----------------------------------------------------------------------------
IsUsersRequest == req.method = "GET" /\ req.path = <<"/", "users">>

Listing == resp.users

ListingFields == {"id", "name", "email", "role", "created_at"}

(* every stored user exactly once, each entry with the five fields only *)
ListsEveryUserOnce ==
    /\ Len(Listing) = Len(users)
    /\ \A i \in 1..Len(users) :
        Cardinality({ j \in 1..Len(Listing) : Listing[j].id = users[i].id }) = 1
    /\ \A j \in 1..Len(Listing) :
        /\ DOMAIN Listing[j] = ListingFields
        /\ \E i \in 1..Len(users) :
            /\ Listing[j].id = users[i].id
            /\ Listing[j].name = users[i].name
            /\ Listing[j].email = users[i].email
            /\ Listing[j].role = users[i].role
            /\ Listing[j].created_at = users[i].created_at

SortedByCreatedAtDesc ==
    \A i, j \in 1..Len(Listing) :
        i < j => ~TextLess(Listing[i].created_at, Listing[j].created_at)

(* ids are given in the order of registration *)
NewestRegistrationFirst ==
    \A i, j \in 1..Len(Listing) : i < j => Listing[i].id > Listing[j].id

(* C5 as claimed: ordered by created_at descending, that is, a user        *)
(* registered later never after a user registered earlier                  *)
UsersListingAsClaimed ==
    (IsUsersRequest /\ resp.status = OK) =>
        ListsEveryUserOnce /\ SortedByCreatedAtDesc /\ NewestRegistrationFirst

(* C5 (amended): GET /users returns every stored user exactly once, each   *)
(* entry holding only id, name, email, role and created_at, ordered by     *)
(* created_at descending: a user with a later created_at never appears     *)
(* after a user with an earlier created_at.                                *)
UsersListing ==
    (IsUsersRequest /\ resp.status = OK) =>
        ListsEveryUserOnce /\ SortedByCreatedAtDesc

UsersListingWitness ==
    /\ IsUsersRequest
    /\ Len(Listing) = 2
    /\ TextLess(Listing[2].created_at, Listing[1].created_at)
    /\ Listing[1].id = 2

----------------------------------------------------------------------------
(* C6: a stored row stays in the table with all its fields unchanged; the  *)
(* table changes only by a successful POST /register appending one row;    *)
(* every GET, every POST to another path and every rejected registration   *)
(* leaves the table as it found it.                                        *)
OnlyRegistrationWrites ==
    req # NoRequest =>
        \/ users = before
        \/ /\ IsRegister
           /\ resp = Redirect(<<REGISTERED>>, "success")
           /\ AppendsOneRow(before, users)

RecordsImmutable ==
    /\ []OnlyRegistrationWrites
    /\ [][/\ \A i \in 1..Len(users) : Len(users') >= i /\ users'[i] = users[i]
          /\ users' # users =>
                /\ IsRegister'
                /\ resp' = Redirect(<<REGISTERED>>, "success")
                /\ AppendsOneRow(users, users')]_vars

RecordsImmutableWitness ==
    /\ req.method = "POST"
    /\ req.path = <<"/", "login">>
    /\ Len(users) = 2
    /\ users = before

----------------------------------------------------------------------------
(* C7: run_server completes init_db (the table exists, and the rows of an  *)
(* existing table are kept) before the socket is bound or a request is     *)
(* handled; if init_db fails the process never listens and serves nothing. *)
StartupOrdering ==
    /\ [](pc = "listening" => tableExists)
    /\ [](req # NoRequest => tableExists /\ pc \in {"listening", "closed"})
    /\ [][pc' = "listening" => pc \in {"db_ready", "listening"}]_vars
    /\ [][pc' = "db_ready" =>
            \/ pc = "db_ready"
            \/ pc = "start" /\ dataDirOk /\ tableExists' /\ users' = users]_vars
    /\ [][(pc = "start" /\ ~dataDirOk) => pc' \in {"start", "crashed"}]_vars
    /\ [][pc = "crashed" => pc' \in {"crashed", "start"} /\ req' = NoRequest]_vars

RestartWitness ==
    /\ pc = "listening"
    /\ req = NoRequest
    /\ Len(users) = 2

----------------------------------------------------------------------------
(* What the handlers answer from the table tbl when the log write succeeds *)
NominalOutcomes(r, tbl) ==
    IF r.method = "GET"
    THEN CASE RouteGet(r.path) = "index" ->
                { [resp |-> ServeIndexResponse(r.path), table |-> tbl] }
           [] RouteGet(r.path) = "users" ->
                { [resp |-> ServeUsersResponse(rows), table |-> tbl] :
                    rows \in OrderByCreatedDesc(tbl) }
           [] RouteGet(r.path) = "static" ->
                { [resp |-> ServeStaticResponse(r.path), table |-> tbl] }
           [] OTHER -> { [resp |-> SendError(NOT_FOUND), table |-> tbl] }
    ELSE IF RoutePost(r.path) = "register"
    THEN { [resp  |-> HandleRegister(r.form, r.salt, t, tbl, TRUE).resp,
            table |-> HandleRegister(r.form, r.salt, t, tbl, TRUE).table] :
                t \in 0..MaxClock }
    ELSE { [resp |-> SendError(NOT_FOUND), table |-> tbl] }

(* C8: a failed write of the log line never aborts the handling: the       *)
(* client receives the response, and the table gets the row, that they     *)
(* get when the write succeeds.                                            *)
LogFailureHarmless ==
    (req # NoRequest /\ ~req.logOk) =>
        [resp |-> resp, table |-> users] \in NominalOutcomes(req, before)

----------------------------------------------------------------------------
(* C9: a GET of /static/... is answered 200 with a file's bytes only if    *)
(* the path, its /static/ prefix stripped once, names a regular file       *)
(* inside the public directory, and 404 otherwise; no path makes the       *)
(* server return a file outside the public directory.                      *)
StaticOnlyFromPublic ==
    (req.method = "GET" /\ StartsWith(req.path, STATIC_PREFIX)) =>
        /\ resp.status \in {OK, NOT_FOUND}
        /\ resp.status = OK =>
            /\ resp.file \in Files
            /\ StartsWith(resp.file, PUBLIC_DIR)

----------------------------------------------------------------------------
Executed(w) == wk[w].pc \in {"executed", "done"}

ValidFields(f) ==
    /\ f.name # <<>>
    /\ f.email # <<>>
    /\ f.password # <<>>
    /\ Lower(Strip(f.role)) \in Roles

TakenAnswer == Redirect(<<EMAIL_TAKEN>>, "error")

RegisteredAnswer == Redirect(<<REGISTERED>>, "success")

====
